---- MODULE Spec2Model ----
(***************************************************************************)
(* Session segmentation and recovery hooks.                                *)
(*                                                                         *)
(*   src/hooks/live-session-indexer.py  the indexing path: reads the       *)
(*       session log from the persisted cursor, detects segment            *)
(*       boundaries, and rewrites segments.json.                           *)
(*   src/hooks/session-recovery.py      the recovery path: scores the      *)
(*       sealed segments and selects a subset under a character budget.    *)
(*                                                                         *)
(* Log lines are 0-based in the source; lines[i + 1] is source line i.     *)
(* A timestamp is its whole seconds and its milliseconds, in UTC with a    *)
(* "Z" as the runtime writes it; parse_timestamp drops the fraction.       *)
(* A string is modelled by its length; a segment id "seg-NNN" by NNN.      *)
(***************************************************************************)
EXTENDS Integers, Sequences, FiniteSets, TLC

VARIABLES
    log,        \* the session JSONL file: a sequence of lines
    disk,       \* segments.json of the session: [state, index]
    outcome,    \* how the latest indexer invocation left main()
    prior_lil,  \* cursor of the readable index last replaced or destroyed
    appends,    \* number of writes the runtime has made to the log
    recovered,  \* the latest call of select_best_segments and its result
    runs,       \* the indexer invocations in flight, when they interleave
    call        \* the latest direct call of a pure function and its result

vars == <<log, disk, outcome, prior_lil, appends, recovered, runs, call>>

----------------------------------------------------------------------------
(* Program constants                                                       *)

MIN_SEGMENT_LINES == 10
MAX_SEGMENT_LINES == 100
TIME_GAP_MINUTES == 5
SEGMENT_CONTEXT_BUDGET == 8000

(* Bounds of the model                                                     *)

MaxAppends == 4      \* writes of the runtime to the log in one behaviour
MaxNow == 1          \* datetime.now() returns one of MaxNow + 1 instants
ScenarioLen == 24    \* records of a scenario log
ScenarioMark == 16   \* the record of the end-to-end log that completes a task
ScenarioSpan == 270  \* seconds from the first to the last scenario record
MaxOver == 2         \* the long quiet logs exceed MAX_SEGMENT_LINES by this
SmallBudget == 1500  \* a character budget below SEGMENT_CONTEXT_BUDGET
MaxLineCount == 101  \* line counts handed to is_segment_boundary directly
MaxEpisodes == 3     \* episodes of a log read by the recovery path
LongEpisode == 16    \* records of a long episode; the short one has
                     \* MIN_SEGMENT_LINES
LongReply == 400     \* characters of a long reply
RaceAppends == 1     \* writes to the log while two runs interleave
MaxDocLines == 3     \* lines of a task document
MaxMillis == 998     \* the largest fraction of a stamp, in milliseconds
MaxMatches == 3      \* phrase matches in one text
MaxUses == 2         \* invocations of one tool in a segment
MaxChunks == 8       \* passes of a chunking loop that are followed
MaxHours == 11       \* score_segment is called up to this many hours late

\* the wall-clock seconds datetime.now() may return
Nows == {3600 * (h + 1) : h \in 0..MaxNow}

----------------------------------------------------------------------------
(* Log lines                                                               *)

NoTs == 0 - 1        \* the record has no "timestamp" key
JunkTs == 0 - 2      \* its "timestamp" is "", or no ISO-8601 text at all

\* a content block of an outbound record: text, or a tool invocation; the
\* decisions of a text are the phrases its two patterns match, in the order
\* they stand in the text
TextBlock(n, topics, decisions) ==
    [btype |-> "text", len |-> n, topics |-> topics, decisions |-> decisions,
     name |-> "", file_len |-> 0, todos |-> <<>>]
ToolBlock(tool, file_len, todos) ==
    [btype |-> "tool_use", len |-> 0, topics |-> {}, decisions |-> <<>>,
     name |-> tool, file_len |-> file_len, todos |-> todos]
Todo(status, n) == [status |-> status, len |-> n]

Line(type, ts, n, topics, blocks) ==
    [type |-> type, ts |-> ts, ts_ms |-> 0, text_len |-> n, topics |-> topics,
     blocks |-> blocks]
WithMillis(msg, ms) == [msg EXCEPT !.ts_ms = ms]
UserMsg(ts, n, topics) == Line("user", ts, n, topics, <<>>)
AssistantMsg(ts, blocks) == Line("assistant", ts, 0, {}, blocks)
BlankLine == Line("blank", NoTs, 0, {}, <<>>)
BadJsonLine == Line("badjson", NoTs, 0, {}, <<>>)
SnapshotLine == Line("file-history-snapshot", NoTs, 0, {}, <<>>)
SummaryLine == Line("summary", NoTs, 0, {}, <<>>)
NonDictLine == Line("nondict", NoTs, 0, {}, <<>>)
NoMsg == Line("none", NoTs, 0, {}, <<>>)

\* the records the scenarios are built from
ShortUser(ts) == UserMsg(ts, 2, {})
LongUser(ts) == UserMsg(ts, 60, {})
Reply(ts) == AssistantMsg(ts, <<TextBlock(4, {}, <<>>)>>)
TaskDone(ts) ==
    AssistantMsg(ts, <<ToolBlock("TodoWrite", 0, <<Todo("completed", 3)>>)>>)

----------------------------------------------------------------------------
(* The stored index, segments.json                                         *)

None == 0 - 1         \* Python's None, and an absent key

NoActive ==
    [present |-> FALSE, has_messages |-> FALSE,
     segment_id |-> 0, start_line |-> 0, line_count |-> 0]

\* the index load_segment_index builds when no stored index can be read
DefaultIndex ==
    [version |-> 1, session_id |-> "None", project |-> "None",
     jsonl_file |-> "None", last_indexed_line |-> 0, segments |-> <<>>,
     active_segment |-> NoActive, total_segments |-> None, last_updated |-> None]

MissingFile == [state |-> "missing", index |-> DefaultIndex]
CorruptFile == [state |-> "corrupt", index |-> DefaultIndex]
OkFile(index) == [state |-> "ok", index |-> index]

\* a text that parses, but not to an index object: null, a non-empty list,
\* or an object whose "segments" is null
MalformedStates == {"null", "list", "segments_null"}
MalformedFile(shape) == [state |-> shape, index |-> DefaultIndex]

\* a missing file and a text json.load rejects give the default index; any
\* text that parses is returned as parsed, whatever its shape
load_segment_index(file) ==
    IF file.state \in {"missing", "corrupt"} THEN DefaultIndex ELSE file.index

\* len(existing_index.get("segments", [])) in main, outside every try:
\* None and a list have no get, and None has no len
count_segments_raises(file) == file.state \in MalformedStates

\* variant: the file is opened for appending, so a second document lands
\* after the first and the text no longer parses
append_file(old, new) == IF old.state = "ok" THEN CorruptFile ELSE OkFile(new)

\* open(index_path, 'w') followed by json.dump: the new text replaces the old
write_file(old, new) == OkFile(new)

save_segment_index(file, index, now) ==
    write_file(file, [index EXCEPT !.last_updated = now])

----------------------------------------------------------------------------
(* Boundary detection                                                      *)

\* msg.get("timestamp")
timestamp_of(msg) == [secs |-> msg.ts, ms |-> msg.ts_ms]

\* None for a missing, empty or unparseable stamp; otherwise the stamp cut
\* at its '.', in milliseconds
parse_timestamp(ts_str) ==
    IF ts_str.secs \in {NoTs, JunkTs} THEN None ELSE ts_str.secs * 1000

NoBoundary == [is_boundary |-> FALSE, boundary_type |-> "None"]
Boundary(label) == [is_boundary |-> TRUE, boundary_type |-> label]

\* variant: a todo that is in progress closes the segment
marks_in_progress(msg) ==
    \E k \in 1..Len(msg.blocks) :
        /\ msg.blocks[k].btype = "tool_use"
        /\ msg.blocks[k].name = "TodoWrite"
        /\ \E t \in 1..Len(msg.blocks[k].todos) :
              msg.blocks[k].todos[t].status = "in_progress"

\* some tool_use block named TodoWrite carries a todo with status completed
MarksCompleted(msg) ==
    \E k \in 1..Len(msg.blocks) :
        /\ msg.blocks[k].btype = "tool_use"
        /\ msg.blocks[k].name = "TodoWrite"
        /\ \E t \in 1..Len(msg.blocks[k].todos) :
              msg.blocks[k].todos[t].status = "completed"

\* variant: the cap fires one record late
over_max(line_count) == line_count > MAX_SEGMENT_LINES

\* rule 1: the open segment is full
reached_max(line_count) == line_count >= MAX_SEGMENT_LINES

\* variant: the floor is not checked
no_floor(line_count) == FALSE

\* rule 2: the open segment is still below the floor
below_min(line_count) == line_count < MIN_SEGMENT_LINES

\* rule 3: both stamps parse and lie more than TIME_GAP_MINUTES apart
time_gap(current_msg, prev_msg) ==
    LET curr_ts == parse_timestamp(timestamp_of(current_msg))
        prev_ts == IF prev_msg # NoMsg
                   THEN parse_timestamp(timestamp_of(prev_msg)) ELSE None
    IN  /\ curr_ts # None
        /\ prev_ts # None
        /\ (curr_ts - prev_ts) > TIME_GAP_MINUTES * 60 * 1000

\* rule 4: an outbound record with a TodoWrite that marks a todo completed
task_completed(current_msg) ==
    current_msg.type = "assistant" /\ MarksCompleted(current_msg)

\* rule 5: a long inbound record right after an outbound one
new_topic(current_msg, prev_msg) ==
    /\ current_msg.type = "user"
    /\ prev_msg # NoMsg
    /\ prev_msg.type = "assistant"
    /\ current_msg.text_len > 50

\* variant: a completed task is looked for before the time gap
task_before_gap(current_msg, prev_msg, line_count) ==
    IF reached_max(line_count) THEN Boundary("max_lines")
    ELSE IF below_min(line_count) THEN NoBoundary
    ELSE IF task_completed(current_msg) THEN Boundary("task_completed")
    ELSE IF time_gap(current_msg, prev_msg) THEN Boundary("time_gap")
    ELSE IF new_topic(current_msg, prev_msg) THEN Boundary("new_topic")
    ELSE NoBoundary

is_segment_boundary(current_msg, prev_msg, line_count) ==
    IF reached_max(line_count) THEN Boundary("max_lines")
    ELSE IF below_min(line_count) THEN NoBoundary
    ELSE IF time_gap(current_msg, prev_msg) THEN Boundary("time_gap")
    ELSE IF task_completed(current_msg) THEN Boundary("task_completed")
    ELSE IF new_topic(current_msg, prev_msg) THEN Boundary("new_topic")
    ELSE NoBoundary

----------------------------------------------------------------------------
(* Segment summaries                                                       *)

Min(a, b) == IF a <= b THEN a ELSE b
Max(a, b) == IF a >= b THEN a ELSE b
Head_(seq, n) == SubSeq(seq, 1, Min(n, Len(seq)))

\* variant: the sort is not reversed, lowest key first
SortAsc(seq, keys) ==
    LET n == Len(seq)
        pos(i) == Cardinality({j \in 1..n : keys[j] < keys[i]})
                  + Cardinality({j \in 1..(i - 1) : keys[j] = keys[i]})
                  + 1
    IN  [p \in 1..n |-> seq[CHOOSE i \in 1..n : pos(i) = p]]

\* stable sort of seq by keys[k], the key of seq[k], highest first:
\* sorted(..., reverse=True) and list.sort(reverse=True) keep the original
\* order of equal keys
SortDesc(seq, keys) ==
    LET n == Len(seq)
        pos(i) == Cardinality({j \in 1..n : keys[j] > keys[i]})
                  + Cardinality({j \in 1..(i - 1) : keys[j] = keys[i]})
                  + 1
    IN  [p \in 1..n |-> seq[CHOOSE i \in 1..n : pos(i) = p]]

\* a phrase of n characters matched by pattern 1 ("I'll", "Let's", "going
\* to", ...) or pattern 2 ("approach:", "strategy:", "solution:"), the
\* at-th match of its text in reading order
Phrase(pattern, n, at) == [pattern |-> pattern, len |-> n, at |-> at]

\* re.findall pattern by pattern, the matches longer than 10 and shorter
\* than 200 characters, at most 5
extract_decisions(block) ==
    LET matches == SelectSeq(block.decisions, LAMBDA m : m.pattern = 1)
                   \o SelectSeq(block.decisions, LAMBDA m : m.pattern = 2)
    IN  Head_(SelectSeq(matches, LAMBDA m : m.len > 10 /\ m.len < 200), 5)

\* concatenation of seqs[lo .. hi], folded by halves
RECURSIVE Flatten(_, _, _)
Flatten(seqs, lo, hi) ==
    IF lo > hi THEN <<>>
    ELSE IF lo = hi THEN seqs[lo]
    ELSE LET mid == (lo + hi) \div 2
         IN  Flatten(seqs, lo, mid) \o Flatten(seqs, mid + 1, hi)

\* the content blocks of the outbound records, in order
all_blocks(messages) ==
    Flatten([k \in 1..Len(messages) |->
               IF messages[k].type = "assistant" THEN messages[k].blocks
               ELSE <<>>], 1, Len(messages))

\* decisions.extend(extract_decisions(text)) over the text blocks, in order
all_decisions(blocks) ==
    Flatten([k \in 1..Len(blocks) |->
               IF blocks[k].btype = "text" THEN extract_decisions(blocks[k])
               ELSE <<>>], 1, Len(blocks))

\* the tools dict: names in order of first use, with their counts
tally(blocks) ==
    LET uses == SelectSeq(blocks, LAMBDA b : b.btype = "tool_use")
        firsts == {k \in 1..Len(uses) :
                     \A j \in 1..(k - 1) : uses[j].name # uses[k].name}
        rank(p) == Cardinality({k \in firsts : k < p}) + 1
    IN  [r \in 1..Cardinality(firsts) |->
           LET p == CHOOSE q \in firsts : rank(q) = r
           IN  [name |-> uses[p].name,
                count |-> Cardinality({j \in 1..Len(uses) :
                                         uses[j].name = uses[p].name})]]

\* topics, tools_used and decisions of create_segment_summary; the file
\* names and the one-line summary text are not modelled
create_segment_summary(messages) ==
    LET blocks == all_blocks(messages)
        found == UNION ({messages[k].topics : k \in
                           {j \in 1..Len(messages) : messages[j].type = "user"}}
                        \cup {blocks[k].topics : k \in
                           {j \in 1..Len(blocks) : blocks[j].btype = "text"}})
    IN  [topics |-> IF Cardinality(found) <= 10 THEN found
                    ELSE CHOOSE T \in SUBSET found : Cardinality(T) = 10,
         tools_used |-> LET tools == tally(blocks)
                       IN  Head_(SortDesc(tools, [k \in 1..Len(tools) |->
                                                    tools[k].count]), 5),
         decisions |-> Head_(all_decisions(blocks), 3)]

----------------------------------------------------------------------------
(* index_session                                                           *)

\* the open segment index_session starts when the stored index has none
new_active(segments, start_line) ==
    [present |-> TRUE, has_messages |-> TRUE,
     segment_id |-> Len(segments), start_line |-> start_line, line_count |-> 0]

\* what is written back as the header of the open segment
active_header(active) == [active EXCEPT !.has_messages = FALSE]

\* variant: the sealed segment is closed on the line that fires the boundary
end_line_on_trigger(i) == i

\* the last line of a segment sealed when line i fires a boundary
end_line_of(i) == i - 1

\* variant: every run starts its list of sealed segments afresh
no_segments(index) == <<>>

\* the sealed segments a run starts from
existing_segments(index) == index.segments

\* variant: the cursor counts the lines of this scan only
scanned_count(lines, start_line) == Len(lines) - start_line

\* the cursor a completed scan stores
scanned_upto(lines, start_line) == Len(lines)

segment_entry(active, messages, i, boundary_type, now) ==
    LET segment_data == create_segment_summary(messages) IN
    [segment_id |-> active.segment_id,
     start_line |-> active.start_line,
     end_line |-> end_line_of(i),
     line_count |-> active.line_count,
     boundary_type |-> boundary_type,
     topics |-> segment_data.topics,
     tools_used |-> segment_data.tools_used,
     decisions |-> segment_data.decisions,
     timestamp |-> IF messages[1].ts = NoTs THEN now ELSE messages[1].ts]

\* variant: no record type is passed over
no_skipped_types == {}

\* the record types the loop passes over
skipped_types == {"file-history-snapshot", "summary"}

\* one pass of the for loop of index_session, for line i; st.failed records
\* an exception
scan_line(lines, i, st, now) ==
    LET msg == lines[i + 1] IN
    IF msg.type \in {"blank", "badjson"} THEN st
    ELSE IF msg.type = "nondict" THEN [st EXCEPT !.failed = TRUE]
    ELSE IF msg.type \in skipped_types THEN st
    ELSE
      LET b == is_segment_boundary(msg, st.prev_msg, st.active.line_count) IN
      IF ~st.active.has_messages THEN [st EXCEPT !.failed = TRUE]
      ELSE
        LET seal == b.is_boundary /\ st.messages # <<>>
            segments == IF seal
                        THEN Append(st.segments,
                                    segment_entry(st.active, st.messages, i,
                                                  b.boundary_type, now))
                        ELSE st.segments
            active == IF seal THEN new_active(segments, i) ELSE st.active
            messages == IF seal THEN <<>> ELSE st.messages
        IN [segments |-> segments,
            active |-> [active EXCEPT !.line_count = @ + 1],
            messages |-> Append(messages, msg),
            prev_msg |-> msg,
            failed |-> FALSE]

\* the for loop over range(lo, hi), folded by halves; nothing runs after an
\* exception
RECURSIVE scan_lines(_, _, _, _, _)
scan_lines(lines, lo, hi, st, now) ==
    IF st.failed \/ lo >= hi THEN st
    ELSE IF hi = lo + 1 THEN scan_line(lines, lo, st, now)
    ELSE LET mid == (lo + hi) \div 2
             first == scan_lines(lines, lo, mid, st, now)
         IN  IF first.failed THEN first
             ELSE scan_lines(lines, mid, hi, first, now)

\* result: failed stands for an exception leaving the call, scanned tells
\* the return after the loop from the early return "already up to date"
index_session(lines, existing_index, now) ==
    LET start_line == existing_index.last_indexed_line IN
    IF start_line >= Len(lines)
    THEN [failed |-> FALSE, scanned |-> FALSE, index |-> existing_index]
    ELSE
      LET segments == existing_segments(existing_index)
          active == IF existing_index.active_segment.present
                    THEN existing_index.active_segment
                    ELSE new_active(segments, start_line)
          st == scan_lines(lines, start_line, Len(lines),
                           [segments |-> segments, active |-> active,
                            messages |-> <<>>, prev_msg |-> NoMsg,
                            failed |-> FALSE], now)
      IN [failed |-> st.failed, scanned |-> TRUE,
          index |-> [existing_index EXCEPT
                       !.session_id = "session",
                       !.project = "project",
                       !.jsonl_file = "path",
                       !.segments = st.segments,
                       !.active_segment = active_header(st.active),
                       !.last_indexed_line = scanned_upto(lines, start_line),
                       !.total_segments = Len(st.segments)]]

----------------------------------------------------------------------------
(* session-recovery.py: scoring and selection                              *)

\* called: select_best_segments was reached; failed_at: where main caught
\* an exception ("none", "input", "context"); emitted: main printed the
\* recovery context
NoRecovery ==
    [called |-> FALSE, budget |-> 0, now |-> 0, pending_todos |-> <<>>,
     segments |-> <<>>, selected |-> <<>>, failed_at |-> "none",
     emitted |-> FALSE]

\* no pure function has been called directly
NoCall == [fn |-> "none", done |-> FALSE]

\* no indexer invocation is in flight
NoRuns == <<>>

\* score_segment returns a float; with whole-second stamps every score is a
\* multiple of 5/3600 point, and scores are kept in that unit, exactly: the
\* rounding of the float sums (one unit in the last place) is not modelled
Points(n) == n * (3600 \div 5)

SegmentTools(segment) ==
    {segment.tools_used[k].name : k \in 1..Len(segment.tools_used)}

\* variant: only Edit counts as active work
edits_only(tools) == "Edit" \in tools

\* "Edit" in tools or "Write" in tools
modifies_content(tools) == "Edit" \in tools \/ "Write" \in tools

\* the recency term: nothing for a stamp that is missing, empty or raises
\* in fromisoformat (the bare except); now is the reading of the local
\* clock, the stamp is taken as it is written
recency_score(segment, now) ==
    IF segment.timestamp \in {NoTs, JunkTs} THEN 0
    ELSE Max(0, Points(50) - (now - segment.timestamp))

\* variant: the topic term is capped at 30 points
capped_matches(topics, pending_todos) ==
    LET RECURSIVE Sum(_)
        Sum(k) == IF k = 0 THEN 0
                  ELSE Cardinality(topics \cap pending_todos[k]) + Sum(k - 1)
    IN  Min(3, Sum(Len(pending_todos)))

\* the loop over pending_todos: len(matching_topics) added up, todo by todo
matching_topics(topics, pending_todos) ==
    LET RECURSIVE Sum(_)
        Sum(k) == IF k = 0 THEN 0
                  ELSE Cardinality(topics \cap pending_todos[k]) + Sum(k - 1)
    IN  Sum(Len(pending_todos))

\* pending_todos is a sequence of todos, each the set of its words
score_segment(segment, pending_todos, now) ==
    LET tools == SegmentTools(segment)
    IN  recency_score(segment, now)
        + Points(10 * matching_topics(segment.topics, pending_todos))
        + (IF segment.decisions # <<>> THEN Points(10) ELSE 0)
        + (IF modifies_content(tools) THEN Points(15) ELSE 0)
        + (IF "TodoWrite" \in tools THEN Points(5) ELSE 0)
        + (IF segment.boundary_type = "task_completed" THEN Points(10)
           ELSE IF segment.boundary_type = "new_topic" THEN Points(5)
           ELSE 0)

\* length of ", ".join(contents[:n]) for the todos with the given status
joined_len(todos, status, n) ==
    LET picked == SelectSeq(todos, LAMBDA t : t.status = status)
        RECURSIVE Total(_)
        Total(k) == IF k = 0 THEN 0 ELSE picked[k].len + Total(k - 1)
        m == Min(n, Len(picked))
    IN  IF m = 0 THEN 0 ELSE Total(m) + 2 * (m - 1)

HasStatus(todos, status) ==
    \E k \in 1..Len(todos) : todos[k].status = status

\* the parts one line contributes to the excerpt, as [count, chars]
RECURSIVE block_parts(_)
block_parts(blocks) ==
    IF blocks = <<>> THEN [count |-> 0, chars |-> 0]
    ELSE
      LET b == Head(blocks)
          rest == block_parts(Tail(blocks))
          own ==
            IF b.btype = "text"
            THEN IF b.len > 0
                 THEN [count |-> 1, chars |-> 11 + Min(b.len, 500)]
                 ELSE [count |-> 0, chars |-> 0]
            ELSE IF b.name \in {"Edit", "Write"}
            THEN [count |-> 1, chars |-> 11 + b.file_len + 1]
            ELSE IF b.name = "TodoWrite"
            THEN [count |-> (IF HasStatus(b.todos, "completed") THEN 1 ELSE 0)
                            + (IF HasStatus(b.todos, "in_progress") THEN 1 ELSE 0),
                  chars |-> (IF HasStatus(b.todos, "completed")
                             THEN 12 + joined_len(b.todos, "completed", 3) + 1
                             ELSE 0)
                            + (IF HasStatus(b.todos, "in_progress")
                               THEN 13 + joined_len(b.todos, "in_progress", 2) + 1
                               ELSE 0)]
            ELSE [count |-> 0, chars |-> 0]
      IN [count |-> own.count + rest.count, chars |-> own.chars + rest.chars]

line_parts(msg) ==
    IF msg.type = "user"
    THEN IF msg.text_len > 0
         THEN [count |-> 1, chars |-> 6 + Min(msg.text_len, 500)]
         ELSE [count |-> 0, chars |-> 0]
    ELSE IF msg.type = "assistant" THEN block_parts(msg.blocks)
    ELSE [count |-> 0, chars |-> 0]

\* the excerpt of lines start_line .. end_line: [failed, chars], chars being
\* the length of "\n".join(content_parts); a text is taken to be non-blank
\* when it is non-empty
RECURSIVE range_parts(_, _, _)
range_parts(lines, lo, hi) ==
    IF lo >= hi THEN [count |-> 0, chars |-> 0]
    ELSE IF hi = lo + 1 THEN line_parts(lines[lo + 1])
    ELSE LET mid == (lo + hi) \div 2
             first == range_parts(lines, lo, mid)
             rest == range_parts(lines, mid, hi)
         IN  [count |-> first.count + rest.count,
              chars |-> first.chars + rest.chars]

extract_segment_content(lines, start_line, end_line) ==
    LET last == Min(end_line + 1, Len(lines))
        parts == range_parts(lines, start_line, last)
    IN  [failed |-> \E i \in start_line..(last - 1) : lines[i + 1].type = "nondict",
         chars |-> IF parts.count = 0 THEN 0
                   ELSE parts.chars + (parts.count - 1)]

\* variant: the running total grows by the estimate used to gate inclusion
charge_estimate(estimated_chars, content_chars) == estimated_chars

\* what a selected segment adds to the running total
charge(estimated_chars, content_chars) == content_chars

\* variant: the scan ends at the first segment that does not fit
stop_at_overflow(scored, k) == Len(scored) + 1

\* continue: after a segment that does not fit, the scan goes on with the
\* next one
next_after_skip(scored, k) == k + 1

\* the selection loop over the sorted list from position k on
RECURSIVE select_from(_, _, _, _, _, _)
select_from(scored, k, lines, budget, total_chars, selected) ==
    IF k > Len(scored) THEN [failed |-> FALSE, selected |-> selected]
    ELSE
      LET seg == scored[k].seg
          estimated_chars == seg.line_count * 100
      IN
      IF total_chars + estimated_chars > budget
      THEN select_from(scored, next_after_skip(scored, k), lines, budget,
                       total_chars, selected)
      ELSE
        LET content == extract_segment_content(lines, seg.start_line, seg.end_line)
            total == IF content.chars > 0
                     THEN total_chars + charge(estimated_chars, content.chars)
                     ELSE total_chars
            chosen == IF content.chars > 0
                      THEN Append(selected,
                                  [segment_id |-> seg.segment_id,
                                   score |-> scored[k].score,
                                   topics |-> seg.topics,
                                   content |-> content.chars])
                      ELSE selected
        IN IF content.failed THEN [failed |-> TRUE, selected |-> selected]
           ELSE IF total >= budget THEN [failed |-> FALSE, selected |-> chosen]
           ELSE select_from(scored, k + 1, lines, budget, total, chosen)

select_best_segments(segments, pending_todos, lines, budget, now) ==
    IF segments = <<>> THEN [failed |-> FALSE, selected |-> <<>>]
    ELSE
      LET scored == [k \in 1..Len(segments) |->
                       [score |-> score_segment(segments[k], pending_todos, now),
                        seg |-> segments[k]]]
      IN select_from(SortDesc(scored, [k \in 1..Len(scored) |-> scored[k].score]),
                     1, lines, budget, 0, <<>>)

----------------------------------------------------------------------------
(* The runtime appends to the log                                          *)

LastTs(lines) ==
    LET S == {lines[k].ts : k \in 1..Len(lines)} \cup {0}
    IN  CHOOSE m \in S : \A x \in S : x <= m

\* a quiet exchange: short user turns and short replies, no boundary signal
QuietMsg(k, ts) ==
    IF k % 2 = 1 THEN ShortUser(ts) ELSE Reply(ts)
Quiet(n, ts) == [k \in 1..n |-> QuietMsg(k, ts)]

\* what one write of the runtime may add after a log whose last stamp is ts;
\* time gaps and long inbound records are left to the scenario logs
Writes(ts) ==
    { Quiet(MIN_SEGMENT_LINES, ts),
      <<TaskDone(ts)>>,
      <<BlankLine>>,
      <<NonDictLine>> }

AppendLines ==
    /\ appends < MaxAppends
    /\ \E w \in Writes(LastTs(log)) : log' = log \o w
    /\ appends' = appends + 1
    /\ UNCHANGED <<disk, outcome, prior_lil, recovered, runs, call>>

----------------------------------------------------------------------------
(* main() of live-session-indexer.py, one invocation                       *)

\* stdin is not JSON: main exits before it touches anything
IndexerBadInput ==
    /\ outcome' = "bad_input"
    /\ UNCHANGED <<log, disk, prior_lil, appends, recovered, runs, call>>

\* the stored text parses to something that is not an index: the count of
\* the loaded segments raises outside every try, and the interpreter ends
\* the process with a traceback and status 1
IndexerCrash ==
    /\ count_segments_raises(disk)
    /\ outcome' = "crashed"
    /\ UNCHANGED <<log, disk, prior_lil, appends, recovered, runs, call>>

\* index_session raises: main logs the error and exits without saving
IndexerIndexError ==
    /\ ~count_segments_raises(disk)
    /\ \E now \in Nows :
          index_session(log, load_segment_index(disk), now).failed
    /\ outcome' = "index_error"
    /\ UNCHANGED <<log, disk, prior_lil, appends, recovered, runs, call>>

\* the cursor of the readable index a write replaces or destroys
replaced_lil(file, lil) ==
    IF file.state = "ok" THEN file.index.last_indexed_line ELSE lil

\* index_session returns and the index is written
IndexerSaved ==
    \E now \in Nows :
      LET r == index_session(log, load_segment_index(disk), now) IN
      /\ ~count_segments_raises(disk)
      /\ ~r.failed
      /\ disk' = save_segment_index(disk, r.index, now)
      /\ prior_lil' = replaced_lil(disk, prior_lil)
      /\ outcome' = IF r.scanned THEN "completed" ELSE "up_to_date"
      /\ UNCHANGED <<log, appends, recovered, runs, call>>

\* index_session returns and save_segment_index raises: at open() the file
\* is untouched, during json.dump the file is already truncated
IndexerSaveError ==
    \E now \in Nows :
      LET r == index_session(log, load_segment_index(disk), now) IN
      /\ ~count_segments_raises(disk)
      /\ ~r.failed
      /\ \/ disk' = disk /\ prior_lil' = prior_lil
         \/ disk' = CorruptFile /\ prior_lil' = replaced_lil(disk, prior_lil)
      /\ outcome' = "save_error"
      /\ UNCHANGED <<log, appends, recovered, runs, call>>

IndexerRun ==
    IndexerBadInput \/ IndexerIndexError \/ IndexerSaved \/ IndexerSaveError

----------------------------------------------------------------------------
(* Direct calls of the pure functions                                      *)

\* stamps around the TIME_GAP_MINUTES threshold, and a missing stamp
CallStamps == {NoTs, TIME_GAP_MINUTES * 60, TIME_GAP_MINUTES * 60 + 1}

InProgress(ts) ==
    AssistantMsg(ts, <<ToolBlock("TodoWrite", 0, <<Todo("in_progress", 3)>>)>>)

\* the current records: short and long inbound text on both sides of the
\* 50-character threshold, outbound text, a completed and an open todo
CurrentRecords ==
    UNION {{ShortUser(ts), UserMsg(ts, 50, {}), UserMsg(ts, 51, {}),
            LongUser(ts), Reply(ts), TaskDone(ts), InProgress(ts)} :
           ts \in CallStamps}

\* the previous records: none, or an inbound or outbound one, with or
\* without a stamp
PreviousRecords ==
    {NoMsg} \cup UNION {{ShortUser(ts), Reply(ts)} : ts \in {NoTs, 0}}

\* the arguments of one call of is_segment_boundary, not yet made
BoundaryArgs ==
    {[fn |-> "is_segment_boundary", done |-> FALSE,
      current_msg |-> current_msg, prev_msg |-> prev_msg,
      line_count |-> line_count, result |-> NoBoundary] :
       current_msg \in CurrentRecords, prev_msg \in PreviousRecords,
       line_count \in 0..MaxLineCount}

\* stamps around the threshold with and without a fraction, a missing and
\* an unparseable one
GapStamps ==
    {<<NoTs, 0>>, <<JunkTs, 0>>}
    \cup {<<TIME_GAP_MINUTES * 60 + over, ms>> :
            over \in 0..1, ms \in {0, MaxMillis}}

\* calls of is_segment_boundary on records that carry no signal but their
\* stamps
GapArgs ==
    {[fn |-> "is_segment_boundary", done |-> FALSE,
      current_msg |-> WithMillis(ShortUser(curr[1]), curr[2]),
      prev_msg |-> prev,
      line_count |-> line_count, result |-> NoBoundary] :
       curr \in GapStamps,
       prev \in {NoMsg, ShortUser(NoTs), ShortUser(JunkTs), ShortUser(0),
                  WithMillis(ShortUser(0), MaxMillis)},
       line_count \in 0..MaxLineCount}

BoundaryCall ==
    /\ call.fn = "is_segment_boundary"
    /\ ~call.done
    /\ call' = [call EXCEPT
                  !.done = TRUE,
                  !.result = is_segment_boundary(call.current_msg,
                                                 call.prev_msg,
                                                 call.line_count)]
    /\ UNCHANGED <<log, disk, outcome, prior_lil, appends, recovered, runs>>

----------------------------------------------------------------------------

Init ==
    /\ log = <<>>
    /\ disk = MissingFile
    /\ outcome = "none"
    /\ prior_lil = 0
    /\ appends = 0
    /\ recovered = NoRecovery
    /\ runs = NoRuns
    /\ call = NoCall

Next == AppendLines \/ IndexerRun

Spec == Init /\ [][Next]_vars

----------------------------------------------------------------------------
(* Scenario logs: a fixed log, indexed from a missing index file, and the  *)
(* recovery path selecting among the segments of the stored index          *)

Stamp(i, n, span) == IF n > 1 THEN (span * i) \div (n - 1) ELSE 0

Signals == {"task", "topic", "gap", "snapshot", "nondict"}

\* the lines index_session passes over
Skipped == {"snapshot", "summary", "blank", "badjson"}

\* record i of a scenario: quiet, except at the marked records; the records
\* from a "gap" mark on are stamped 2 * TIME_GAP_MINUTES later
ScenarioLine(i, n, span, marks) ==
    LET ts == Stamp(i, n, span)
              + 2 * TIME_GAP_MINUTES * 60
                * Cardinality({m \in marks : m[2] = "gap" /\ m[1] <= i})
        here == {m[2] : m \in {x \in marks : x[1] = i}}
    IN  IF "task" \in here THEN TaskDone(ts)
        ELSE IF "topic" \in here THEN LongUser(ts)
        ELSE IF "snapshot" \in here THEN SnapshotLine
        ELSE IF "summary" \in here THEN SummaryLine
        ELSE IF "blank" \in here THEN BlankLine
        ELSE IF "badjson" \in here THEN BadJsonLine
        ELSE IF "nondict" \in here THEN NonDictLine
        ELSE QuietMsg(i + 1, ts)

Scenario(n, span, marks) ==
    [j \in 1..n |-> ScenarioLine(j - 1, n, span, marks)]

\* 24 records over 4.5 minutes, record 16 completes a task
EndToEndLog ==
    Scenario(ScenarioLen, ScenarioSpan, {<<ScenarioMark, "task">>})

\* 9 records, the last one 10 minutes after the others
ShortGapLog ==
    Scenario(MIN_SEGMENT_LINES - 1, 0, {<<MIN_SEGMENT_LINES - 2, "gap">>})

ScenarioLogs ==
    {Scenario(ScenarioLen, ScenarioSpan, {<<k, sig>>}) :
        k \in 0..(ScenarioLen - 1), sig \in Signals}
    \cup {Scenario(ScenarioLen, ScenarioSpan,
                    {<<k, sig>>, <<k + MIN_SEGMENT_LINES, "task">>}) :
        k \in 0..(ScenarioLen - 1 - MIN_SEGMENT_LINES),
        sig \in {"task", "topic", "gap"}}
    \cup {Scenario(n, 0, {<<k, sig>>}) :
        n \in {MIN_SEGMENT_LINES - 1, MIN_SEGMENT_LINES},
        k \in 0..(MIN_SEGMENT_LINES - 1), sig \in Signals}
    \cup {Quiet(n, 0) :
        n \in (MAX_SEGMENT_LINES - 1)..(MAX_SEGMENT_LINES + MaxOver)}
    \cup {Scenario(ScenarioLen, ScenarioSpan, {<<k, skip>>, <<k + 1, sig>>}) :
        k \in MIN_SEGMENT_LINES..(ScenarioLen - 2),
        skip \in Skipped, sig \in {"task", "topic", "gap"}}

Budgets == {0, SmallBudget, SEGMENT_CONTEXT_BUDGET}
PendingTodos == {<<>>}

\* variant: the index file is opened with mode 'w', which empties it
opened_for_writing(file) == CorruptFile

\* open(index_path, 'r') and json.load leave the file as it is
opened_for_reading(file) == file

\* build_recovery_context reaches select_best_segments when the stored index
\* is readable and lists a segment, and the selection is printed
SelectSegments ==
    /\ disk.state = "ok"
    /\ disk.index.segments # <<>>
    /\ \E budget \in Budgets, now \in Nows, pending_todos \in PendingTodos :
          LET r == select_best_segments(disk.index.segments, pending_todos,
                                        log, budget, now)
          IN  /\ ~r.failed
              /\ recovered' = [called |-> TRUE, budget |-> budget,
                               now |-> now, pending_todos |-> pending_todos,
                               segments |-> disk.index.segments,
                               selected |-> r.selected,
                               failed_at |-> "none", emitted |-> TRUE]
    /\ disk' = opened_for_reading(disk)
    /\ UNCHANGED <<log, outcome, prior_lil, appends, runs, call>>

\* stdin is not JSON, or not an object: main exits without output
RecoveryBadInput ==
    /\ recovered' = [NoRecovery EXCEPT !.failed_at = "input"]
    /\ UNCHANGED <<log, disk, outcome, prior_lil, appends, runs, call>>

\* no index can be read, or what is read is falsy or lists no segment: the
\* context is printed without segments
RecoveryNoSegments ==
    /\ IF disk.state = "ok" THEN disk.index.segments = <<>>
       ELSE disk.state \in {"missing", "corrupt", "null", "segments_null"}
    /\ recovered' = [NoRecovery EXCEPT !.emitted = TRUE]
    /\ disk' = opened_for_reading(disk)
    /\ UNCHANGED <<log, outcome, prior_lil, appends, runs, call>>

\* build_recovery_context raises: a non-empty list has no get, and
\* extract_segment_content raises on a line that is not a record; main
\* logs the error and exits without output
RecoveryError ==
    /\ IF disk.state = "ok"
       THEN /\ disk.index.segments # <<>>
            /\ \E now \in Nows, pending_todos \in PendingTodos :
                  select_best_segments(disk.index.segments, pending_todos,
                                        log, SEGMENT_CONTEXT_BUDGET, now).failed
       ELSE disk.state = "list"
    /\ recovered' = [NoRecovery EXCEPT !.failed_at = "context"]
    /\ disk' = opened_for_reading(disk)
    /\ UNCHANGED <<log, outcome, prior_lil, appends, runs, call>>

RecoveryRun ==
    RecoveryBadInput \/ RecoveryNoSegments \/ RecoveryError \/ SelectSegments

ScenarioInit ==
    /\ log \in ScenarioLogs
    /\ disk = MissingFile
    /\ outcome = "none"
    /\ prior_lil = 0
    /\ appends = 0
    /\ recovered = NoRecovery
    /\ runs = NoRuns
    /\ call = NoCall

ScenarioNext == IndexerRun \/ SelectSegments

ScenarioSpec == ScenarioInit /\ [][ScenarioNext]_vars

----------------------------------------------------------------------------
(* Both hooks over a log of episodes, starting from whatever the index     *)
(* file holds                                                              *)

\* an outbound record that edits a file whose base name has 7 characters
EditMsg(ts) == AssistantMsg(ts, <<ToolBlock("Edit", 7, <<>>)>>)

\* an exchange of short inbound records and replies of reply_len characters
Exchange(n, reply_len, ts) ==
    [k \in 1..n |-> IF k % 2 = 1 THEN ShortUser(ts)
                    ELSE AssistantMsg(ts, <<TextBlock(reply_len, {}, <<>>)>>)]

\* n records: a completed task, then an edit or not, then an exchange
Episode(n, edit, reply_len, ts) ==
    IF edit THEN <<TaskDone(ts), EditMsg(ts)>> \o Exchange(n - 2, reply_len, ts)
    ELSE <<TaskDone(ts)>> \o Exchange(n - 1, reply_len, ts)

\* a short episode, a long one with an edit, a short one with long replies
ShortKind == <<MIN_SEGMENT_LINES, FALSE, 4>>
LongKind == <<LongEpisode, TRUE, 4>>
VerboseKind == <<MIN_SEGMENT_LINES, FALSE, LongReply>>

\* MaxEpisodes episodes, short or long, the first one possibly verbose
EpisodeOrders ==
    LET plain == [1..MaxEpisodes -> {ShortKind, LongKind}]
    IN  plain \cup {[kinds EXCEPT ![1] = VerboseKind] : kinds \in plain}

\* the episodes one after the other and the record that closes the last
EpisodeLog(kinds) ==
    Flatten([k \in 1..Len(kinds) |->
               Episode(kinds[k][1], kinds[k][2], kinds[k][3], 0)],
            1, Len(kinds)) \o <<TaskDone(0)>>

RecoveryLogs ==
    {EpisodeLog(kinds) : kinds \in EpisodeOrders}
    \cup {Episode(MIN_SEGMENT_LINES, FALSE, 4, 0) \o <<NonDictLine>>}

\* what the index file may hold before the first run
StoredFiles ==
    {MissingFile} \cup {MalformedFile(shape) : shape \in MalformedStates}

RecoveryInit ==
    /\ log \in RecoveryLogs
    /\ disk \in StoredFiles
    /\ outcome = "none"
    /\ prior_lil = 0
    /\ appends = 0
    /\ recovered = NoRecovery
    /\ runs = NoRuns
    /\ call = NoCall

RecoveryNext == IndexerRun \/ IndexerCrash \/ RecoveryRun

RecoverySpec == RecoveryInit /\ [][RecoveryNext]_vars

----------------------------------------------------------------------------
(* Two invocations of the indexer main for the same session, interleaved   *)
(* at their file accesses                                                  *)

Runners == {1, 2}

\* a run before its first step; index is what the run holds in memory
FreshRun == [pc |-> "start", index |-> DefaultIndex, saved |-> FALSE]

\* the length of the text json.dump writes, in units of one sealed
\* segment: the text grows with every sealed segment, and the texts of two
\* indexes with equally many segments are taken to be equally long
text_len(index) == Len(index.segments)

\* open(index_path, 'w'): the file exists and is empty
truncated(file) == CorruptFile

\* json.dump and close through a descriptor opened before the file got its
\* present text: the new text lands at offset 0, and what the file holds
\* beyond the end of the new text stays behind it
overwritten(file, index) ==
    IF file.state = "ok" /\ text_len(file.index) > text_len(index)
    THEN CorruptFile
    ELSE OkFile(index)

\* the runtime appends a record that completes a task
LogGrows ==
    /\ appends < RaceAppends
    /\ log' = log \o <<TaskDone(LastTs(log))>>
    /\ appends' = appends + 1
    /\ UNCHANGED <<disk, outcome, prior_lil, recovered, runs, call>>

\* load_segment_index in main
RunLoad(p) ==
    /\ runs[p].pc = "start"
    /\ ~count_segments_raises(disk)
    /\ runs' = [runs EXCEPT ![p].pc = "loaded",
                            ![p].index = load_segment_index(disk)]
    /\ UNCHANGED <<log, disk, outcome, prior_lil, appends, recovered, call>>

\* index_session reads the log and returns or raises; save_segment_index
\* stamps the index before it opens the file
RunIndex(p) ==
    /\ runs[p].pc = "loaded"
    /\ \E now \in Nows :
          LET r == index_session(log, runs[p].index, now) IN
          runs' = IF r.failed
                  THEN [runs EXCEPT ![p].pc = "done"]
                  ELSE [runs EXCEPT
                          ![p].pc = "indexed",
                          ![p].index = [r.index EXCEPT !.last_updated = now]]
    /\ UNCHANGED <<log, disk, outcome, prior_lil, appends, recovered, call>>

\* open(index_path, 'w') in save_segment_index
RunOpen(p) ==
    /\ runs[p].pc = "indexed"
    /\ disk' = truncated(disk)
    /\ runs' = [runs EXCEPT ![p].pc = "opened"]
    /\ UNCHANGED <<log, outcome, prior_lil, appends, recovered, call>>

\* json.dump and the close of the file in save_segment_index
RunDump(p) ==
    /\ runs[p].pc = "opened"
    /\ disk' = overwritten(disk, runs[p].index)
    /\ runs' = [runs EXCEPT ![p].pc = "done", ![p].saved = TRUE]
    /\ UNCHANGED <<log, outcome, prior_lil, appends, recovered, call>>

RaceInit ==
    /\ log = Quiet(MIN_SEGMENT_LINES, 0)
    /\ disk = MissingFile
    /\ outcome = "none"
    /\ prior_lil = 0
    /\ appends = 0
    /\ recovered = NoRecovery
    /\ runs = [p \in Runners |-> FreshRun]
    /\ call = NoCall

RaceNext ==
    \/ LogGrows
    \/ \E p \in Runners : RunLoad(p) \/ RunIndex(p) \/ RunOpen(p) \/ RunDump(p)

RaceSpec == RaceInit /\ [][RaceNext]_vars

\* a sealed segment of 10 records as stored in the index
Segment(timestamp, topics, decisions, boundary_type, tools_used) ==
    [segment_id |-> 0, start_line |-> 0, end_line |-> MIN_SEGMENT_LINES - 1,
     line_count |-> MIN_SEGMENT_LINES, boundary_type |-> boundary_type,
     topics |-> topics, tools_used |-> tools_used, decisions |-> decisions,
     timestamp |-> timestamp]

Used(name) == [name |-> name, count |-> 1]

\* segments without a content-modifying tool
PlainSegments ==
    {Segment(timestamp, topics, decisions, boundary_type, tools_used) :
       timestamp \in {0, 1800},
       topics \in {{}, {"api"}, {"api", "test"}},
       decisions \in {<<>>, <<20>>},
       boundary_type \in {"max_lines", "time_gap", "task_completed",
                          "new_topic"},
       tools_used \in {<<>>, <<Used("TodoWrite")>>, <<Used("Read")>>}}

\* the tools_used entries that make a segment one of active work
ModifyingTools ==
    {<<Used("Edit")>>, <<Used("Write")>>, <<Used("Edit"), Used("Write")>>}

\* pending-task lists: none, one task, two tasks that share a word, two
\* tasks that hold both topics
PendingLists ==
    {<<>>, <<{"fix", "api"}>>, <<{"api"}, {"api", "test"}>>,
     <<{"add", "api", "test"}, {"test", "the", "api"}>>}

\* the arguments of two calls of score_segment, not yet made: on a segment
\* and on the same segment with a content-modifying tool among its tools
ScoreArgs ==
    {[fn |-> "score_segment", done |-> FALSE,
      segment |-> segment,
      modified |-> [segment EXCEPT !.tools_used = tools \o @],
      pending_todos |-> pending_todos, now |-> 3600 * hours,
      utc_now |-> 3600 * hours, score |-> 0, modified_score |-> 0] :
       segment \in PlainSegments, tools \in ModifyingTools,
       pending_todos \in PendingLists,
       hours \in 1..MaxHours}

\* hours the local clock is ahead of UTC: datetime.now() is the naive
\* local time, the stamps of the log are UTC
UtcOffsets == {0 - 5, 0, 2}

\* segments that score on recency alone, stamped at UTC 00:00:00 or
\* 00:30:00, or with a missing or unparseable stamp
BareSegments ==
    {Segment(timestamp, {}, <<>>, "max_lines", <<>>) :
       timestamp \in {0, 1800, NoTs, JunkTs}}

\* the arguments of calls of score_segment up to MaxHours hours after
\* UTC 00:00:00, in each zone
RecencyArgs ==
    {[fn |-> "score_segment", done |-> FALSE,
      segment |-> segment,
      modified |-> [segment EXCEPT !.tools_used = <<Used("Edit")>>],
      pending_todos |-> <<>>, now |-> 3600 * (hours + offset),
      utc_now |-> 3600 * hours, score |-> 0, modified_score |-> 0] :
       segment \in BareSegments, hours \in 1..MaxHours,
       offset \in UtcOffsets}

ScoreCall ==
    /\ call.fn = "score_segment"
    /\ ~call.done
    /\ call' = [call EXCEPT
                  !.done = TRUE,
                  !.score = score_segment(call.segment, call.pending_todos,
                                          call.now),
                  !.modified_score = score_segment(call.modified,
                                                   call.pending_todos,
                                                   call.now)]
    /\ UNCHANGED <<log, disk, outcome, prior_lil, appends, recovered, runs>>

\* a line of the task document todos.md, by what the string tests of
\* extract_pending_todos see in it: level is the number of leading '#'
\* before a space (0: not a header), title what a header names, marker
\* whether '## In Progress' or '## Pending' occurs anywhere in the line,
\* h2 whether the line starts with '## ', box whether the stripped line
\* starts with '- [ ]' ("checked" for '- [x]'), text the words left when
\* the '- [ ]' are taken out and the rest is stripped (0: none), upper
\* whether they hold a capital
DocLine(level, title, marker, h2, box, text, upper) ==
    [level |-> level, title |-> title, marker |-> marker, h2 |-> h2,
     box |-> box, text |-> text, upper |-> upper]

\* "## Pending", "## In Progress", "## Completed", "# Archive",
\* "### Pending review", "- [ ] Fix parser", "  - [ ] add tests", "- [ ] ",
\* "- [x] Ship it", "moved over from ## Pending"
DocLines ==
    {DocLine(2, "pending", TRUE, TRUE, "none", 0, FALSE),
     DocLine(2, "in_progress", TRUE, TRUE, "none", 0, FALSE),
     DocLine(2, "completed", FALSE, TRUE, "none", 0, FALSE),
     DocLine(1, "archive", FALSE, FALSE, "none", 0, FALSE),
     DocLine(3, "pending review", TRUE, FALSE, "none", 0, FALSE),
     DocLine(0, "", FALSE, FALSE, "unchecked", 1, TRUE),
     DocLine(0, "", FALSE, FALSE, "unchecked", 2, FALSE),
     DocLine(0, "", FALSE, FALSE, "unchecked", 0, FALSE),
     DocLine(0, "", FALSE, FALSE, "checked", 3, TRUE),
     DocLine(0, "", TRUE, FALSE, "none", 4, FALSE)}

\* in_pending when the loop reaches the checkbox test of line k (1-based)
RECURSIVE in_pending(_, _)
in_pending(doc, k) ==
    IF k = 0 THEN FALSE
    ELSE IF doc[k].marker THEN TRUE
    ELSE IF in_pending(doc, k - 1) /\ doc[k].h2 THEN FALSE
    ELSE in_pending(doc, k - 1)

\* line k reaches pending.append: a marker line is passed over by continue
appends_todo(doc, k) ==
    /\ ~doc[k].marker
    /\ in_pending(doc, k)
    /\ doc[k].box = "unchecked"
    /\ doc[k].text # 0

\* todo_text.lower(), with the line it came from
lowered(doc, k) == [line |-> k, text |-> doc[k].text, upper |-> FALSE]

extract_pending_todos(doc) ==
    LET from == SelectSeq([k \in 1..Len(doc) |-> k],
                          LAMBDA k : appends_todo(doc, k))
    IN  [i \in 1..Len(from) |-> lowered(doc, from[i])]

\* the task documents
Docs == UNION {[1..n -> DocLines] : n \in 1..MaxDocLines}

TodosArgs ==
    {[fn |-> "extract_pending_todos", done |-> FALSE, doc |-> doc,
      pending |-> <<>>] : doc \in Docs}

TodosCall ==
    /\ call.fn = "extract_pending_todos"
    /\ ~call.done
    /\ call' = [call EXCEPT !.done = TRUE,
                            !.pending = extract_pending_todos(call.doc)]
    /\ UNCHANGED <<log, disk, outcome, prior_lil, appends, recovered, runs>>

\* the phrase matches of one text: up to MaxMatches phrases of either
\* pattern, of 10, 11 or 200 characters
MatchLists ==
    UNION {{[at \in 1..n |-> Phrase(pats[at], lens[at], at)] :
              pats \in [1..n -> {1, 2}], lens \in [1..n -> {10, 11, 200}]} :
           n \in 0..MaxMatches}

\* one outbound record of two texts, the second with one match at most
TalkRecords ==
    {<<AssistantMsg(0, <<TextBlock(40, {}, first),
                         TextBlock(40, {}, second)>>)>> :
       first \in MatchLists, second \in {m \in MatchLists : Len(m) <= 1}}

ToolNames == <<"Read", "Edit", "Write", "Bash", "Grep", "TodoWrite">>

\* one outbound record per round of tool invocations: round r invokes, in
\* the order of ToolNames, every tool that is used at least r times
ToolRounds(uses) ==
    [r \in 1..MaxUses |->
       AssistantMsg(0,
         LET names == SelectSeq(ToolNames, LAMBDA name :
                        uses[CHOOSE k \in 1..Len(ToolNames) :
                               ToolNames[k] = name] >= r)
         IN  [k \in 1..Len(names) |-> ToolBlock(names[k], 0, <<>>)])]

WorkRecords ==
    {ToolRounds(uses) : uses \in [1..Len(ToolNames) -> 0..MaxUses]}

NoSummary == [topics |-> {}, tools_used |-> <<>>, decisions |-> <<>>]

\* the arguments of one call of create_segment_summary, not yet made
SummaryArgs ==
    {[fn |-> "create_segment_summary", done |-> FALSE, messages |-> messages,
      summary |-> NoSummary] : messages \in TalkRecords \cup WorkRecords}

SummaryCall ==
    /\ call.fn = "create_segment_summary"
    /\ ~call.done
    /\ call' = [call EXCEPT
                  !.done = TRUE,
                  !.summary = create_segment_summary(call.messages)]
    /\ UNCHANGED <<log, disk, outcome, prior_lil, appends, recovered, runs>>

----------------------------------------------------------------------------
(* rlm_tools/chunk.py: chunk_by_size and chunk_by_lines                    *)

\* a text is its length and the positions of the three marks the chunker
\* looks for: "\n", ". " (the position of the period) and " "
Text(n, newlines, periods, spaces) ==
    [len |-> n, newlines |-> newlines, periods |-> periods,
     spaces |-> spaces \cup {p + 1 : p \in periods}]

\* str.rfind(sub, lo, hi): the bounds are normalised as slice bounds are
\* (a negative one counts from the end, then both are clipped), the
\* highest position where sub lies inside [lo, hi) is returned, -1 if none
SliceIndex(i, n) == IF i < 0 THEN Max(i + n, 0) ELSE Min(i, n)

rfind(positions, width, n, lo, hi) ==
    LET inside == {p \in positions : /\ SliceIndex(lo, n) <= p
                                     /\ p + width <= SliceIndex(hi, n)}
    IN  IF inside = {} THEN 0 - 1
        ELSE CHOOSE p \in inside : \A q \in inside : q <= p

\* lines 79-96: the end of the chunk that starts at start
natural_end(text, start, chunk_size) ==
    LET end == start + chunk_size
        newline_pos == rfind(text.newlines, 1, text.len,
                             start + chunk_size - 1000, end + 100)
        period_pos == rfind(text.periods, 2, text.len,
                            start + chunk_size - 500, end + 50)
        space_pos == rfind(text.spaces, 1, text.len,
                           start + chunk_size - 200, end + 20)
    IN  IF end < text.len
        THEN IF newline_pos > start THEN newline_pos + 1
             ELSE IF period_pos > start THEN period_pos + 2
             ELSE IF space_pos > start THEN space_pos + 1
             ELSE end
        ELSE end

\* text.split('\n')
line_total(text) == Cardinality(text.newlines) + 1

\* main passes only --lines to chunk_by_lines: the overlap is its default
overlap_lines == 10

PlainTexts == {Text(n, {}, {}, {}) : n \in {0, 3, 1000, 3000}}

MarkedTexts ==
    {Text(3000, newlines, periods, spaces) :
        newlines \in SUBSET {701, 1200}, periods \in SUBSET {650},
        spaces \in SUBSET {760}}

LineTexts == {Text(n - 1, 0..(n - 2), {}, {}) : n \in {1, 2, 11, 12, 25}}

\* --size and --overlap are any integers (type=int); the positive ones
ChunkSizes == {1, 5, 400, 800, 2000}
Overlaps == {1, 100, 400, 500}
LinesPerChunk == {1, 5, 10, 11, 1000}

\* a call that has entered its loop: start is the loop variable, chunks
\* the start and end recorded for each chunk so far, units the length the
\* loop compares start with
ChunkArgs ==
    {[fn |-> "chunk_by_size", done |-> FALSE, text |-> text,
      chunk_size |-> chunk_size, overlap |-> overlap, units |-> text.len,
      start |-> 0, chunks |-> <<>>] :
        text \in PlainTexts \cup MarkedTexts, chunk_size \in ChunkSizes,
        overlap \in Overlaps}
    \cup
    {[fn |-> "chunk_by_lines", done |-> FALSE, text |-> text,
      chunk_size |-> lines_per_chunk, overlap |-> overlap_lines,
      units |-> line_total(text), start |-> 0, chunks |-> <<>>] :
        text \in LineTexts, lines_per_chunk \in LinesPerChunk}

\* one pass of the while loop of chunk_by_size, or its return
chunk_by_size ==
    /\ call.fn = "chunk_by_size"
    /\ ~call.done
    /\ Len(call.chunks) < MaxChunks
    /\ IF call.start < call.text.len
       THEN LET end == natural_end(call.text, call.start, call.chunk_size)
            IN  call' = [call EXCEPT
                   !.chunks = Append(@, [start |-> call.start, end |-> end]),
                   !.start = IF end < call.text.len
                             THEN end - call.overlap ELSE end]
       ELSE call' = [call EXCEPT !.done = TRUE]
    /\ UNCHANGED <<log, disk, outcome, prior_lil, appends, recovered, runs>>

\* one pass of the while loop of chunk_by_lines, or its return
chunk_by_lines ==
    /\ call.fn = "chunk_by_lines"
    /\ ~call.done
    /\ Len(call.chunks) < MaxChunks
    /\ IF call.start < line_total(call.text)
       THEN LET end == Min(call.start + call.chunk_size,
                           line_total(call.text))
            IN  call' = [call EXCEPT
                   !.chunks = Append(@, [start |-> call.start, end |-> end]),
                   !.start = IF end < line_total(call.text)
                             THEN end - call.overlap ELSE end]
       ELSE call' = [call EXCEPT !.done = TRUE]
    /\ UNCHANGED <<log, disk, outcome, prior_lil, appends, recovered, runs>>

----------------------------------------------------------------------------
(* The pure functions called directly, on inputs of their own              *)

PureInit ==
    /\ log = <<>>
    /\ disk = MissingFile
    /\ outcome = "none"
    /\ prior_lil = 0
    /\ appends = 0
    /\ recovered = NoRecovery
    /\ runs = NoRuns
    /\ call \in BoundaryArgs \cup GapArgs \cup ScoreArgs \cup RecencyArgs
              \cup TodosArgs \cup SummaryArgs \cup ChunkArgs

PureNext ==
    \/ BoundaryCall
    \/ ScoreCall
    \/ TodosCall
    \/ SummaryCall
    \/ chunk_by_size
    \/ chunk_by_lines

PureSpec == PureInit /\ [][PureNext]_vars

----------------------------------------------------------------------------
(* Properties of the indexing path                                         *)

Stored == disk.index
Sealed == disk.index.segments
Active == disk.index.active_segment

IsPrefix(s, t) == Len(s) <= Len(t) /\ \A k \in 1..Len(s) : s[k] = t[k]

\* the lines from the stored cursor on are all inbound or outbound records
NewRecordsWellFormed ==
    /\ Stored.last_indexed_line < Len(log)
    /\ \A k \in (Stored.last_indexed_line + 1)..Len(log) :
          log[k].type \in {"user", "assistant"}

\* C1 (coverage): in every stored index the sealed ranges in order, followed
\* by the open range [active.start_line, last_indexed_line), partition
\* [0, last_indexed_line): the first range starts at 0, every later range
\* starts one past the end of the one before it, no range is inverted.
C1_Coverage ==
    disk.state = "ok" =>
      /\ \A k \in 1..Len(Sealed) :
            /\ Sealed[k].start_line <= Sealed[k].end_line
            /\ Sealed[k].start_line =
                 IF k = 1 THEN 0 ELSE Sealed[k - 1].end_line + 1
      /\ IF Active.present
         THEN /\ Active.start_line =
                   IF Sealed = <<>> THEN 0
                   ELSE Sealed[Len(Sealed)].end_line + 1
              /\ Active.start_line <= Stored.last_indexed_line
         ELSE Sealed = <<>> /\ Stored.last_indexed_line = 0

C1_Witness ==
    /\ disk.state = "ok"
    /\ Len(Sealed) >= 2
    /\ Active.present
    /\ Active.start_line < Stored.last_indexed_line
    /\ Stored.last_indexed_line = Len(log)

\* C2 (resumption): whenever the stored index has an open segment header and
\* the log has gained well-formed records, the next run's index_session
\* returns without raising and moves the cursor to the log's line count.
C2_ResumptionCompletes ==
    (disk.state = "ok" /\ Active.present /\ NewRecordsWellFormed) =>
      \A now \in Nows :
        LET r == index_session(log, load_segment_index(disk), now) IN
        ~r.failed /\ r.index.last_indexed_line = Len(log)

\* C3 (monotonicity): the cursor of a stored index is never below the cursor
\* of the readable index that was stored before it, whatever happened in
\* between (runs without new content, failed runs, a destroyed index file).
C3_CursorNeverDecreases ==
    disk.state = "ok" => Stored.last_indexed_line >= prior_lil

C3_Witness ==
    /\ disk.state = "ok"
    /\ prior_lil > 0
    /\ Stored.last_indexed_line > prior_lil

\* C4 (idempotence): a run that finds no line beyond the stored cursor and
\* writes the index leaves every field but last_updated as it was.
C4_Idempotent ==
    [][(IndexerSaved /\ disk.state = "ok"
          /\ Stored.last_indexed_line >= Len(log))
        => /\ disk'.state = "ok"
           /\ [disk'.index EXCEPT !.last_updated = None] =
              [disk.index EXCEPT !.last_updated = None]]_vars

C4_Witness ==
    /\ outcome = "up_to_date"
    /\ disk.state = "ok"
    /\ Sealed # <<>>
    /\ Stored.last_indexed_line = Len(log)

\* C6 (sealed segments are immutable): when a run loads a readable index and
\* stores a readable index, the sealed segments it loaded are a prefix of
\* the sealed segments it stores.
C6_SealedPrefix ==
    [][(disk.state = "ok" /\ disk'.state = "ok")
        => IsPrefix(disk.index.segments, disk'.index.segments)]_vars

C6_Witness ==
    /\ outcome = "completed"
    /\ disk.state = "ok"
    /\ Sealed # <<>>
    /\ prior_lil > 0
    /\ Stored.last_indexed_line > prior_lil

\* C7 (fail-closed): a step that changes the index file is a run that
\* completes and leaves a whole index; every other run leaves the file as
\* it was.
C7_FailClosed ==
    [][disk' # disk
        => (outcome' \in {"completed", "up_to_date"} /\ disk'.state = "ok")]_vars

\* what C27 compares of an index: the sealed segments without their
\* stamps, the header of the open segment, and the cursor
Outline(index) ==
    [segments |-> [k \in 1..Len(index.segments) |->
                     [f \in {"segment_id", "start_line", "end_line",
                             "line_count", "boundary_type", "topics",
                             "tools_used", "decisions"} |->
                        index.segments[k][f]]],
     active_segment |-> index.active_segment,
     last_indexed_line |-> index.last_indexed_line]

\* every line of the log is one index_session reads or skips without
\* raising
Readable(lines) == \A k \in 1..Len(lines) : lines[k].type # "nondict"

\* C27 (incremental equals one-shot): when a run has read the log, whatever
\* runs came before it on shorter prefixes of the log, the stored index has
\* the sealed segments, the open segment header and the cursor that a
\* single run over the whole log from an empty index produces.
C27_IncrementalIsOneShot ==
    [][(/\ log' = log
        /\ Readable(log)
        /\ outcome' \in {"completed", "up_to_date", "index_error"})
       => /\ disk'.state = "ok"
          /\ \A now \in Nows :
                Outline(disk'.index) =
                  Outline(index_session(log, DefaultIndex, now).index)]_vars

----------------------------------------------------------------------------
(* Properties of the scenarios                                             *)

\* the estimate select_best_segments gates on, summed over the selection
EstimatedChars(selection, segments) ==
    LET est(k) ==
          LET seg == CHOOSE x \in {segments[j] : j \in 1..Len(segments)} :
                        x.segment_id = selection[k].segment_id
          IN  seg.line_count * 100
        RECURSIVE Sum(_)
        Sum(k) == IF k = 0 THEN 0 ELSE est(k) + Sum(k - 1)
    IN  Sum(Len(selection))

\* C5 (budget respect): a selection made with budget 0 is empty, and the
\* estimated sizes line_count * 100 of the selected segments sum to at most
\* the budget.
C5_BudgetRespected ==
    recovered.called =>
      /\ recovered.budget = 0 => recovered.selected = <<>>
      /\ EstimatedChars(recovered.selected, recovered.segments)
           <= recovered.budget

\* C8 as claimed: after a run over the end-to-end log the only sealed
\* segment covers records 0 to ScenarioMark and is labeled task_completed,
\* and the open segment starts at the record after it.
C8_SealedThroughTrigger ==
    (log = EndToEndLog /\ disk.state = "ok") =>
      /\ Len(Sealed) = 1
      /\ Sealed[1].start_line = 0
      /\ Sealed[1].end_line = ScenarioMark
      /\ Sealed[1].boundary_type = "task_completed"
      /\ Active.start_line = ScenarioMark + 1
      /\ Stored.last_indexed_line = ScenarioLen

\* C8 amended: after a run over the end-to-end log the only sealed segment
\* covers records 0 to ScenarioMark - 1 and is labeled task_completed; the
\* record that completes the task is the first record of the open segment,
\* which covers records ScenarioMark to ScenarioLen - 1.
C8_SealedBeforeTrigger ==
    (log = EndToEndLog /\ disk.state = "ok") =>
      /\ Len(Sealed) = 1
      /\ Sealed[1].start_line = 0
      /\ Sealed[1].end_line = ScenarioMark - 1
      /\ Sealed[1].line_count = ScenarioMark
      /\ Sealed[1].boundary_type = "task_completed"
      /\ Active.start_line = ScenarioMark
      /\ Active.line_count = ScenarioLen - ScenarioMark
      /\ Stored.last_indexed_line = ScenarioLen

C8_Witness ==
    /\ log = EndToEndLog
    /\ disk.state = "ok"
    /\ outcome = "completed"
    /\ Sealed # <<>>

\* C9 as claimed: a run over exactly MAX_SEGMENT_LINES quiet records seals
\* a segment labeled max_lines.
C9_CapAtHundred ==
    (log = Quiet(MAX_SEGMENT_LINES, 0) /\ disk.state = "ok") =>
      \E k \in 1..Len(Sealed) : Sealed[k].boundary_type = "max_lines"

\* C9 amended: a run over quiet records seals nothing while there are at
\* most MAX_SEGMENT_LINES of them, the open segment then holding them all;
\* with one record more it seals records 0 to MAX_SEGMENT_LINES - 1 as a
\* segment labeled max_lines, and the open segment starts at the record
\* that found the segment full.
C9_CapOnNextRecord ==
    \A n \in (MAX_SEGMENT_LINES - 1)..(MAX_SEGMENT_LINES + MaxOver) :
      (log = Quiet(n, 0) /\ disk.state = "ok") =>
        IF n <= MAX_SEGMENT_LINES
        THEN Sealed = <<>> /\ Active.line_count = n
        ELSE /\ Len(Sealed) = 1
             /\ Sealed[1].start_line = 0
             /\ Sealed[1].end_line = MAX_SEGMENT_LINES - 1
             /\ Sealed[1].line_count = MAX_SEGMENT_LINES
             /\ Sealed[1].boundary_type = "max_lines"
             /\ Active.start_line = MAX_SEGMENT_LINES
             /\ Active.line_count = n - MAX_SEGMENT_LINES

C9_Witness ==
    /\ log = Quiet(MAX_SEGMENT_LINES + 1, 0)
    /\ disk.state = "ok"
    /\ outcome = "completed"
    /\ Len(Sealed) = 1

\* C10 (minimum floor): no segment is sealed with fewer than
\* MIN_SEGMENT_LINES records, whatever the record that follows them; a log
\* of at most MIN_SEGMENT_LINES lines, such as 9 records with a 10-minute
\* gap before the last one, seals nothing.
C10_Floor ==
    disk.state = "ok" =>
      /\ \A k \in 1..Len(Sealed) : Sealed[k].line_count >= MIN_SEGMENT_LINES
      /\ Len(log) <= MIN_SEGMENT_LINES => Sealed = <<>>

C10_Witness ==
    /\ log = ShortGapLog
    /\ disk.state = "ok"
    /\ outcome = "completed"
    /\ Sealed = <<>>
    /\ Active.line_count = MIN_SEGMENT_LINES - 1

\* C28 (segment size bounds): in every stored index every sealed segment
\* counts at least MIN_SEGMENT_LINES and at most MAX_SEGMENT_LINES records,
\* and the open segment counts at most MAX_SEGMENT_LINES.
C28_SizeBounds ==
    disk.state = "ok" =>
      /\ \A k \in 1..Len(Sealed) :
            /\ Sealed[k].line_count >= MIN_SEGMENT_LINES
            /\ Sealed[k].line_count <= MAX_SEGMENT_LINES
      /\ Active.present => Active.line_count <= MAX_SEGMENT_LINES

\* a stored index with a segment sealed at the cap and more than one
\* record after it
C28_Witness ==
    /\ disk.state = "ok"
    /\ Len(log) > MAX_SEGMENT_LINES + 1
    /\ Len(Sealed) = 1
    /\ Sealed[1].line_count = MAX_SEGMENT_LINES
    /\ Active.line_count > 1

\* line i (0-based) of the log is a record: not blank, parsed, and neither
\* a snapshot nor a summary
Counted(i) ==
    log[i + 1].type \notin {"blank", "badjson", "file-history-snapshot",
                            "summary"}

\* the records among lines lo..hi, in order
RecordsIn(lo, hi) ==
    LET places == SelectSeq([j \in 1..(hi - lo + 1) |-> lo + j - 1],
                            LAMBDA i : Counted(i))
    IN  [j \in 1..Len(places) |-> log[places[j] + 1]]

\* C29 (counted records): in every stored index the line_count of a sealed
\* segment is the number of records among its lines, its topics, tools and
\* decisions are those of exactly these records, the line after it (the one
\* that closed it) is a record, and the answer that closed it is the one
\* is_segment_boundary gives for that record and the last record before
\* it, lines passed over left aside.
C29_CountedRecords ==
    disk.state = "ok" =>
      \A k \in 1..Len(Sealed) :
        LET records == RecordsIn(Sealed[k].start_line, Sealed[k].end_line)
            summary == create_segment_summary(records)
            closer == Sealed[k].end_line + 1
        IN  /\ Sealed[k].line_count = Len(records)
            /\ Sealed[k].topics = summary.topics
            /\ Sealed[k].tools_used = summary.tools_used
            /\ Sealed[k].decisions = summary.decisions
            /\ closer < Len(log)
            /\ Counted(closer)
            /\ is_segment_boundary(log[closer + 1], records[Len(records)],
                                   Len(records))
                 = Boundary(Sealed[k].boundary_type)

\* a long inbound record closes a segment as a new topic although a line
\* that is passed over stands between it and the outbound record before it
C29_Witness ==
    /\ disk.state = "ok"
    /\ Len(Sealed) = 1
    /\ Sealed[1].boundary_type = "new_topic"
    /\ ~Counted(Sealed[1].end_line)
    /\ Sealed[1].line_count = Sealed[1].end_line - Sealed[1].start_line

----------------------------------------------------------------------------
(* Properties of the pure functions                                        *)

\* the five rules in their order, as the conditions they test and the
\* answers they give
RuleMatches(current_msg, prev_msg, line_count) ==
    <<reached_max(line_count),
      below_min(line_count),
      time_gap(current_msg, prev_msg),
      task_completed(current_msg),
      new_topic(current_msg, prev_msg)>>

RuleAnswers ==
    <<Boundary("max_lines"), NoBoundary, Boundary("time_gap"),
      Boundary("task_completed"), Boundary("new_topic")>>

\* C11 (decision list): the answer of is_segment_boundary is the answer of
\* the first rule, in the order max_lines, below-minimum, time_gap,
\* task_completed, new_topic, whose condition holds, and no boundary when
\* no condition holds.
C11_FirstMatchWins ==
    (call.fn = "is_segment_boundary" /\ call.done) =>
      LET matches == RuleMatches(call.current_msg, call.prev_msg,
                                 call.line_count)
          hits == {i \in 1..Len(matches) : matches[i]}
      IN  call.result =
            IF hits = {} THEN NoBoundary
            ELSE RuleAnswers[CHOOSE i \in hits : \A j \in hits : i <= j]

\* a record that follows a gap and completes a task, in a segment between
\* the floor and the cap, is answered with time_gap
C11_Witness ==
    /\ call.fn = "is_segment_boundary"
    /\ call.done
    /\ call.line_count >= MIN_SEGMENT_LINES
    /\ call.line_count < MAX_SEGMENT_LINES
    /\ time_gap(call.current_msg, call.prev_msg)
    /\ task_completed(call.current_msg)
    /\ call.result = Boundary("time_gap")

\* the stamp of a record is one parse_timestamp is meant to read
Parses(msg) == msg # NoMsg /\ msg.ts \notin {NoTs, JunkTs}

\* the time from the previous record to the current one, in milliseconds
ElapsedMillis(current_msg, prev_msg) ==
    (current_msg.ts * 1000 + current_msg.ts_ms)
    - (prev_msg.ts * 1000 + prev_msg.ts_ms)

\* C22 (time-gap rule): with the open-segment count in [10, 100), a record
\* is answered with "time_gap" exactly when its stamp and the stamp of the
\* previous record parse and the time elapsed between them is more than
\* 5 minutes; exactly 5 minutes, a missing or unparseable stamp and an
\* absent previous record do not give it.
C22_TimeGap ==
    (/\ call.fn = "is_segment_boundary"
     /\ call.done
     /\ call.line_count >= MIN_SEGMENT_LINES
     /\ call.line_count < MAX_SEGMENT_LINES) =>
      (call.result = Boundary("time_gap") <=>
         /\ Parses(call.current_msg)
         /\ Parses(call.prev_msg)
         /\ ElapsedMillis(call.current_msg, call.prev_msg)
              > TIME_GAP_MINUTES * 60 * 1000)

C24_RecencyBounds ==
    (call.fn = "score_segment" /\ call.done /\ call.segment \in BareSegments)
      =>
      /\ call.score >= 0
      /\ call.score <= Points(50)
      /\ call.segment.timestamp \in {NoTs, JunkTs} => call.score = 0
      /\ (/\ call.segment.timestamp \notin {NoTs, JunkTs}
          /\ call.utc_now - call.segment.timestamp >= 10 * 3600)
           => call.score = 0

\* the tool invocations of the records, and how often a name is invoked
Invocations(messages) ==
    SelectSeq(all_blocks(messages), LAMBDA b : b.btype = "tool_use")
TimesUsed(messages, name) ==
    Cardinality({k \in 1..Len(Invocations(messages)) :
                   Invocations(messages)[k].name = name})

\* the phrases of 10 to 200 characters in the texts of the records, text by
\* text, in the order they stand in each text
PhrasesInOrder(messages) ==
    LET blocks == all_blocks(messages)
    IN  Flatten([k \in 1..Len(blocks) |->
                   SelectSeq(blocks[k].decisions,
                             LAMBDA m : m.len >= 10 /\ m.len <= 200)],
                1, Len(blocks))

\* the tools part of C26
TopTools(messages, tools_used) ==
    LET used == {Invocations(messages)[k].name :
                   k \in 1..Len(Invocations(messages))}
        kept == {tools_used[k].name : k \in 1..Len(tools_used)}
    IN  /\ Len(tools_used) = Min(5, Cardinality(used))
        /\ Cardinality(kept) = Len(tools_used)
        /\ kept \subseteq used
        /\ \A k \in 1..Len(tools_used) :
              tools_used[k].count = TimesUsed(messages, tools_used[k].name)
        /\ \A k \in 1..(Len(tools_used) - 1) :
              tools_used[k].count >= tools_used[k + 1].count
        /\ \A name \in used \ kept : \A k \in 1..Len(tools_used) :
              TimesUsed(messages, name) <= tools_used[k].count

\* C26 (summary caps): tools_used holds at most 5 tools, those invoked most
\* often in the segment, with their counts, highest count first; decisions
\* holds at most 3 phrases, the first 3 of 10 to 200 characters in the order
\* of the segment's outbound text.
C26_SummaryCaps ==
    (call.fn = "create_segment_summary" /\ call.done) =>
      /\ Len(call.summary.tools_used) <= 5
      /\ TopTools(call.messages, call.summary.tools_used)
      /\ Len(call.summary.decisions) <= 3
      /\ call.summary.decisions = Head_(PhrasesInOrder(call.messages), 3)

----------------------------------------------------------------------------
(* Properties of the task document                                         *)

\* the nearest header line above line k of the document, 0 when none
HeaderAbove(doc, k) ==
    IF \E j \in 1..(k - 1) : doc[j].level > 0
    THEN CHOOSE j \in 1..(k - 1) :
           /\ doc[j].level > 0
           /\ \A i \in (j + 1)..(k - 1) : doc[i].level = 0
    ELSE 0

\* line k is an unchecked checkbox line with text under an "## In Progress"
\* or "## Pending" header
IsPendingTask(doc, k) ==
    /\ doc[k].box = "unchecked"
    /\ doc[k].text # 0
    /\ LET h == HeaderAbove(doc, k)
       IN  /\ h # 0
           /\ doc[h].level = 2
           /\ doc[h].title \in {"pending", "in_progress"}

\* C21 (pending-task extraction): the tasks returned are, in document
\* order, the lowercased texts of exactly the unchecked checkbox lines
\* with text whose nearest header line above is an "## In Progress" or
\* "## Pending" header.
C21_PendingTasks ==
    (call.fn = "extract_pending_todos" /\ call.done) =>
      LET expected == SelectSeq([k \in 1..Len(call.doc) |-> k],
                                LAMBDA k : IsPendingTask(call.doc, k))
      IN  call.pending =
            [i \in 1..Len(expected) |->
               [line |-> expected[i], text |-> call.doc[expected[i]].text,
                upper |-> FALSE]]

----------------------------------------------------------------------------
(* Properties of the error handling                                        *)

\* C12 (malformed lines are skipped): whatever lines the log holds, blank
\* lines and JSON values that are not records among them, a run that starts
\* without a stored index returns from index_session and moves the cursor
\* to the log's line count.
C12_MalformedSkipped ==
    disk.state \in {"missing", "corrupt"} =>
      \A now \in Nows :
        LET r == index_session(log, load_segment_index(disk), now) IN
        ~r.failed /\ r.index.last_indexed_line = Len(log)

\* a run of the indexer main that got past stdin, whose index_session
\* returned and whose save did not raise
IndexerWentThrough ==
    /\ IndexerRun \/ IndexerCrash
    /\ outcome' \notin {"bad_input", "index_error", "save_error"}

\* C13 (no readable index is no prior state): when the index file is
\* missing, unparseable, or parses to something that is not an index, an
\* indexer run stores the index of the whole log, indexed from line 0, and
\* a recovery run prints its context without segments.
C13_NoPriorState ==
    [][disk.state # "ok" =>
         /\ IndexerWentThrough =>
               /\ outcome' = "completed"
               /\ disk'.state = "ok"
               /\ \E now \in Nows :
                     disk'.index.segments =
                       index_session(log, DefaultIndex, now).index.segments
               /\ disk'.index.last_indexed_line = Len(log)
         /\ (RecoveryNoSegments \/ RecoveryError) =>
               /\ recovered'.emitted
               /\ ~recovered'.called]_vars

\* the status the process of the indexer ends with: sys.exit(0) on every
\* path of main, 1 when an exception leaves main
ExitStatus(o) == IF o = "crashed" THEN 1 ELSE 0

\* C14 (the hooks never fail their caller): every invocation ends with
\* status 0, and a recovery run that failed inside has printed nothing.
C14_CleanExit ==
    /\ ExitStatus(outcome) = 0
    /\ recovered.failed_at # "none" => ~recovered.emitted

----------------------------------------------------------------------------
(* Properties of interleaved runs                                          *)

\* the coverage of C1, of an index held in memory
Covers(index) ==
    /\ \A k \in 1..Len(index.segments) :
          /\ index.segments[k].start_line <= index.segments[k].end_line
          /\ index.segments[k].start_line =
               IF k = 1 THEN 0 ELSE index.segments[k - 1].end_line + 1
    /\ IF index.active_segment.present
       THEN /\ index.active_segment.start_line =
                 IF index.segments = <<>> THEN 0
                 ELSE index.segments[Len(index.segments)].end_line + 1
            /\ index.active_segment.start_line <= index.last_indexed_line
       ELSE index.segments = <<>> /\ index.last_indexed_line = 0

\* C15 (atomic persistence): while a run is between opening the index file
\* and the end of its write, the file a reader would open holds a whole
\* index, never an empty or partly written text.
C15_WholeWhileSaving ==
    (\E p \in Runners : runs # NoRuns /\ runs[p].pc = "opened") =>
      disk.state = "ok"

\* C16 (interleaved runs): when both runs have finished and one of them has
\* saved, the file holds the whole index one of the saving runs wrote, and
\* that index satisfies the coverage invariant.
C16_OneRunWins ==
    (runs # NoRuns /\ (\A p \in Runners : runs[p].pc = "done")
       /\ (\E p \in Runners : runs[p].saved)) =>
      /\ disk.state = "ok"
      /\ \E p \in Runners : runs[p].saved /\ disk.index = runs[p].index
      /\ Covers(disk.index)

----------------------------------------------------------------------------
(* Properties of the recovery path                                         *)

\* C17 (the recovery path is read-only): no invocation of the recovery
\* hook, whether it prints a context, finds no segments or fails, changes
\* the index file or the log: a step that changes one of them is not a
\* step of the recovery hook.
C17_RecoveryReadOnly ==
    [][(disk' # disk \/ log' # log) => ~RecoveryRun]_vars

\* a recovery run has read a stored index and printed a selection from it
C17_Witness ==
    /\ recovered.called
    /\ recovered.emitted
    /\ recovered.selected # <<>>
    /\ disk.state = "ok"
    /\ recovered.segments = disk.index.segments

\* the place of the segment with this id in the stored list
PlaceOf(segments, segment_id) ==
    CHOOSE k \in 1..Len(segments) : segments[k].segment_id = segment_id

\* C19 (selection order): the selected segments are in non-increasing
\* order of score, and selected segments of equal score are in the order
\* they have in the index.
C19_SelectionOrder ==
    recovered.called =>
      \A i, j \in 1..Len(recovered.selected) :
        i < j =>
          LET a == recovered.selected[i]
              b == recovered.selected[j]
          IN  /\ a.score >= b.score
              /\ a.score = b.score =>
                    PlaceOf(recovered.segments, a.segment_id)
                      < PlaceOf(recovered.segments, b.segment_id)

\* a selection in which the sort moved a later segment to the front and
\* kept two segments of equal score in their order
C19_Witness ==
    /\ recovered.called
    /\ \E i, j \in 1..Len(recovered.selected) :
          /\ i < j
          /\ recovered.selected[i].score > recovered.selected[j].score
          /\ PlaceOf(recovered.segments, recovered.selected[i].segment_id)
               > PlaceOf(recovered.segments, recovered.selected[j].segment_id)
    /\ \E i, j \in 1..Len(recovered.selected) :
          /\ i < j
          /\ recovered.selected[i].score = recovered.selected[j].score

\* the scores of the segments of the latest call, by place in the index
Scores ==
    [k \in 1..Len(recovered.segments) |->
       score_segment(recovered.segments[k], recovered.pending_todos,
                     recovered.now)]

\* their ranks when ordered by score, highest first, equal scores in index
\* order
Ranks ==
    LET scores == Scores IN
    [k \in 1..Len(recovered.segments) |->
       1 + Cardinality({j \in 1..Len(recovered.segments) :
                          scores[j] > scores[k]})
         + Cardinality({j \in 1..(k - 1) : scores[j] = scores[k]})]

\* their whole excerpts, and their estimates
WholeContents ==
    [k \in 1..Len(recovered.segments) |->
       extract_segment_content(log, recovered.segments[k].start_line,
                               recovered.segments[k].end_line).chars]
Estimate(k) == recovered.segments[k].line_count * 100

\* the places of the segments the latest call selected
Chosen ==
    {k \in 1..Len(recovered.segments) :
       \E i \in 1..Len(recovered.selected) :
         recovered.selected[i].segment_id = recovered.segments[k].segment_id}

\* the sum of f over the places in S
RECURSIVE SumOver(_, _)
SumOver(f, S) ==
    IF S = {} THEN 0
    ELSE LET x == CHOOSE x \in S : TRUE IN f[x] + SumOver(f, S \ {x})

\* C20 (skip, do not truncate): going down the ranking, a segment is
\* selected exactly when its estimate added to the running total, the
\* excerpts of the selected segments ranked above it, stays within the
\* budget (and it has an excerpt at all), whether or not a higher-ranked
\* segment was left out before it; a selected segment is there with its
\* whole excerpt.
C20_SkipAndContinue ==
    recovered.called =>
      LET ranks == Ranks
          contents == WholeContents
          chosen == Chosen
      IN  \A k \in 1..Len(recovered.segments) :
            /\ k \in chosen <=>
                  /\ contents[k] > 0
                  /\ SumOver(contents, {j \in chosen : ranks[j] < ranks[k]})
                       + Estimate(k) <= recovered.budget
            /\ k \in chosen =>
                  \E i \in 1..Len(recovered.selected) :
                    /\ recovered.selected[i].segment_id =
                         recovered.segments[k].segment_id
                    /\ recovered.selected[i].content = contents[k]

\* C25 (recovered content fits the budget): the lengths of the excerpts of
\* the selected segments sum to at most the budget of the call.
C25_ContentFitsBudget ==
    recovered.called =>
      LET lengths == [i \in 1..Len(recovered.selected) |->
                        recovered.selected[i].content]
      IN  SumOver(lengths, 1..Len(recovered.selected)) <= recovered.budget

\* the top-ranked segment did not fit and was left out, and a segment
\* ranked below it was selected
C20_Witness ==
    /\ recovered.called
    /\ \E k, j \in 1..Len(recovered.segments) :
          /\ Ranks[k] = 1
          /\ k \notin Chosen
          /\ Estimate(k) > recovered.budget
          /\ Ranks[j] > 1
          /\ j \in Chosen

\* position p of the text (a character, or a line) is in the chunk:
\* text[start:end] and lines[start:end]
Holds(chunk, p, n) ==
    SliceIndex(chunk.start, n) <= p /\ p < SliceIndex(chunk.end, n)

\* C30: chunk_by_size and chunk_by_lines terminate on every text for every
\* positive chunk size, lines-per-chunk and overlap the command line
\* accepts: the start position strictly increases from each chunk to the
\* next, so the loop makes no more passes than the text has characters
\* (lines), and the chunks of a call that returned cover the whole text.
C30_ChunkingTerminates ==
    call.fn \in {"chunk_by_size", "chunk_by_lines"} =>
      /\ \A i \in 1..(Len(call.chunks) - 1) :
            call.chunks[i + 1].start > call.chunks[i].start
      /\ Len(call.chunks) <= call.units
      /\ call.done =>
            \A p \in 0..(call.units - 1) :
                \E i \in 1..Len(call.chunks) :
                    Holds(call.chunks[i], p, call.units)

====
